---- MODULE Spec2Model ----
(***************************************************************************)
(* Model of the request-validation subsystem of fiberFullStackTemplate:    *)
(*   internal/validation/validator.go   (src/unnamed/part_003)              *)
(*   internal/middleware/validation.go                                      *)
(*   internal/utils/validation_errors.go                                    *)
(*                                                                         *)
(* Strings that the rules inspect are sequences of code points; names and  *)
(* messages are TLA+ strings.  A Go error is a record with a "kind":       *)
(* Nil, a *validation.ValidationErrors (with its Errors map, a function    *)
(* from keys to messages) or a plain error.                                *)
(***************************************************************************)
EXTENDS Integers, Sequences, FiniteSets, TLC

VARIABLES obj, call, req, model

vars == <<obj, call, req, model>>

(***************************************************************************)
(* Bounds of the model.                                                    *)
(***************************************************************************)
\* longest field value (in code points) the engine specification draws
MaxLen == 2
\* longest list of field names handed to ValidatePartial
MaxFields == 2
\* number of requests in flight in the pipeline specification
NumReqs == 2

\* code points the field values are drawn from: 'a' and '1'
Chars == {97, 49}

RECURSIVE SeqsUpTo(_, _)
SeqsUpTo(S, n) ==
    IF n = 0 THEN {<<>>}
    ELSE LET shorter == SeqsUpTo(S, n - 1)
         IN  shorter \cup {Append(s, x) : s \in {t \in shorter : Len(t) = n - 1}, x \in S}

Values == SeqsUpTo(Chars, MaxLen)

(***************************************************************************)
(* The candidate shape.  Each field has its Go identifier, its json        *)
(* annotation (a sequence of characters, empty when none is declared) and  *)
(* its validate annotation, already split at the commas into (tag, param)  *)
(* pairs in declaration order.                                             *)
(***************************************************************************)
Rule(tag, param) == [tag |-> tag, param |-> param]

Shape ==
    << [name  |-> "Email",
        json  |-> <<"e", "m", "a", "i", "l">>,
        rules |-> <<Rule("required", ""), Rule("min", "2")>>],
       [name  |-> "Username",
        json  |-> <<"u", "s", "e", "r", "n", "a", "m", "e", ",", "o", "m", "i", "t", "e", "m", "p", "t", "y">>,
        rules |-> <<Rule("omitempty", ""), Rule("alpha", ""), Rule("min", "2")>>],
       [name  |-> "Bio",
        json  |-> <<>>,
        rules |-> <<Rule("max", "1")>>] >>

FieldNames == {Shape[i].name : i \in 1..Len(Shape)}

\* every object of the shape with field values of at most MaxLen code points
Objects == [FieldNames -> Values]

\* the zero value of the shape (&UserUpdate{})
ZeroObj == [n \in FieldNames |-> <<>>]

(***************************************************************************)
(* Errors.                                                                 *)
(***************************************************************************)
Nil == [kind |-> "nil"]

ValidationErrors(m) == [kind |-> "ValidationErrors", Errors |-> m]

PlainError(text) == [kind |-> "error", text |-> text]

EmptyMap == [k \in {} |-> ""]

Put(m, k, v) == [x \in (DOMAIN m) \cup {k} |-> IF x = k THEN v ELSE m[x]]

(***************************************************************************)
(* NewValidator: the field name extractor registered with the library.     *)
(***************************************************************************)
RECURSIVE Join(_)
Join(cs) == IF cs = <<>> THEN "" ELSE Head(cs) \o Join(Tail(cs))

\* strings.SplitN(s, ",", 2)[0]: the part before the first comma
RECURSIVE BeforeComma(_)
BeforeComma(cs) ==
    IF cs = <<>> \/ Head(cs) = "," THEN <<>>
    ELSE <<Head(cs)>> \o BeforeComma(Tail(cs))

\* the extractor with the json annotation taken whole, options included
TagNameFuncWholeTag(fld) ==
    LET name == Join(fld.json)
    IN  IF name = "" THEN fld.name ELSE name

TagNameFunc(fld) ==
    LET name == Join(BeforeComma(fld.json))
    IN  IF name = "" THEN fld.name ELSE name

(***************************************************************************)
(* The rule checks of the validation library, as the engine calls them.    *)
(***************************************************************************)
\* largest numeric rule parameter a shape may declare
MaxParam == 9

\* strconv.ParseInt of a rule parameter
asInt(param) == CHOOSE n \in 0..MaxParam : ToString(n) = param

\* the value is not the zero value of its type
hasValue(v) == v # <<>>

IsLetter(c) == (c >= 97 /\ c <= 122) \/ (c >= 65 /\ c <= 90)

IsDigit(c) == c >= 48 /\ c <= 57

(***************************************************************************)
(* The custom validators of internal/validation.  A Go string is its UTF-8  *)
(* bytes: len(s) and s[i] count and index bytes, range s walks code points. *)
(***************************************************************************)
\* the UTF-8 encoding of one code point
Utf8Of(c) ==
    IF c < 128 THEN <<c>>
    ELSE IF c < 2048 THEN <<192 + (c \div 64), 128 + (c % 64)>>
    ELSE IF c < 65536
         THEN <<224 + (c \div 4096), 128 + ((c \div 64) % 64), 128 + (c % 64)>>
         ELSE <<240 + (c \div 262144), 128 + ((c \div 4096) % 64),
                128 + ((c \div 64) % 64), 128 + (c % 64)>>

\* the bytes of a string
RECURSIVE Bytes(_)
Bytes(s) == IF s = <<>> THEN <<>> ELSE Utf8Of(Head(s)) \o Bytes(Tail(s))

\* Go's len(s)
GoLen(s) == Len(Bytes(s))

\* the code points of "!@#$%^&*()_+-=[]{}|;:,.<>?"
SpecialChars ==
    {33, 64, 35, 36, 37, 94, 38, 42, 40, 41, 95, 43, 45, 61, 91, 93, 123, 125,
     124, 59, 58, 44, 46, 60, 62, 63}

IsUpper(c) == c >= 65 /\ c <= 90

IsLower(c) == c >= 97 /\ c <= 122

validatePassword(s) ==
    IF GoLen(s) < 8 THEN FALSE
    ELSE /\ \E i \in 1..Len(s) : IsUpper(s[i])
         /\ \E i \in 1..Len(s) : IsLower(s[i])
         /\ \E i \in 1..Len(s) : IsDigit(s[i])
         /\ \E i \in 1..Len(s) : s[i] \in SpecialChars

\* validateUsername with the upper bound exclusive
validateUsernameBelow30(s) ==
    IF GoLen(s) < 3 \/ GoLen(s) >= 30 THEN FALSE
    ELSE \A i \in 1..Len(s) :
            IsLower(s[i]) \/ IsUpper(s[i]) \/ IsDigit(s[i]) \/ s[i] = 95 \/ s[i] = 45

validateUsername(s) ==
    IF GoLen(s) < 3 \/ GoLen(s) > 30 THEN FALSE
    ELSE \A i \in 1..Len(s) :
            IsLower(s[i]) \/ IsUpper(s[i]) \/ IsDigit(s[i]) \/ s[i] = 95 \/ s[i] = 45

\* validateSlug with only the leading hyphen refused
validateSlugLeadingOnly(s) ==
    IF GoLen(s) = 0 THEN FALSE
    ELSE IF \E i \in 1..Len(s) : ~(IsLower(s[i]) \/ IsDigit(s[i]) \/ s[i] = 45)
         THEN FALSE
         ELSE Bytes(s)[1] # 45

validateSlug(s) ==
    IF GoLen(s) = 0 THEN FALSE
    ELSE IF \E i \in 1..Len(s) : ~(IsLower(s[i]) \/ IsDigit(s[i]) \/ s[i] = 45)
         THEN FALSE
         ELSE Bytes(s)[1] # 45 /\ Bytes(s)[GoLen(s)] # 45

\* eqfield with the sibling never read
isEqFieldIgnored(v, parent, param) == TRUE

\* the library's eqfield on strings: the value equals the sibling that the
\* parameter names by its Go identifier
isEqField(v, parent, param) == v = parent[param]

\* the strings of the documented examples, written out as code points
Str ==
    [Abc12345 |-> <<65, 98, 99, 49, 50, 51, 52, 53, 33>>,
     different |-> <<100, 105, 102, 102, 101, 114, 101, 110, 116>>,
     weak |-> <<119, 101, 97, 107>>,
     posts |-> <<112, 111, 115, 116, 115>>,
     users |-> <<117, 115, 101, 114, 115>>,
     tags |-> <<116, 97, 103, 115>>,
     SecurePass123 |-> <<83, 101, 99, 117, 114, 101, 80, 97, 115, 115, 49, 50, 51, 33>>,
     alllowercase123 |-> <<97, 108, 108, 108, 111, 119, 101, 114, 99, 97, 115, 101, 49, 50, 51, 33>>,
     test_user_1 |-> <<116, 101, 115, 116, 95, 117, 115, 101, 114, 45, 49>>,
     bad_user |-> <<98, 97, 100, 32, 117, 115, 101, 114>>,
     my_post_1 |-> <<109, 121, 45, 112, 111, 115, 116, 45, 49>>,
     leading |-> <<45, 108, 101, 97, 100, 105, 110, 103>>,
     trailing |-> <<116, 114, 97, 105, 108, 105, 110, 103, 45>>,
     Has_Upper |-> <<72, 97, 115, 95, 85, 112, 112, 101, 114>>,
     Aa1eee |-> <<65, 97, 49, 33, 233, 233, 233>>]

\* the options of a oneof parameter (strings.Fields of the parameter)
OneOfOptions(param) ==
    CASE param = "posts users tags" -> {Str.posts, Str.users, Str.tags}
      [] OTHER -> {}

\* one registered rule applied to one field value; string lengths of the
\* library's own rules are counted in code points (utf8.RuneCountInString).
\* "parent" is the struct the field belongs to: eqfield reads the named
\* sibling from it (and has no struct to read from under validate.Var)
RuleHolds(tag, param, v, parent) ==
    CASE tag = "required" -> hasValue(v)
      [] tag = "eqfield"  -> isEqField(v, parent, param)
      [] tag = "oneof"    -> v \in OneOfOptions(param)
      [] tag = "password" -> validatePassword(v)
      [] tag = "username" -> validateUsername(v)
      [] tag = "slug"     -> validateSlug(v)
      [] tag = "min"      -> Len(v) >= asInt(param)
      [] tag = "max"      -> Len(v) <= asInt(param)
      [] tag = "len"      -> Len(v) = asInt(param)
      [] tag = "alpha"    -> v # <<>> /\ \A i \in 1..Len(v) : IsLetter(v[i])
      [] tag = "numeric"  -> v # <<>> /\ \A i \in 1..Len(v) : IsDigit(v[i])
      [] tag = "alphanum" -> v # <<>> /\ \A i \in 1..Len(v) : IsLetter(v[i]) \/ IsDigit(v[i])

NoFailure == [tag |-> "", param |-> ""]

\* FirstFailure with the walk not stopping at a failure: the last failing rule
\* of the field is the one reported
RECURSIVE LastFailure(_, _, _)
LastFailure(rules, v, parent) ==
    IF rules = <<>> THEN NoFailure
    ELSE LET r == Head(rules)
             rest == LastFailure(Tail(rules), v, parent)
         IN  IF r.tag = "omitempty"
             THEN IF hasValue(v) THEN rest ELSE NoFailure
             ELSE IF rest # NoFailure THEN rest
                  ELSE IF RuleHolds(r.tag, r.param, v, parent) THEN NoFailure ELSE r

\* the library's walk over one field's rules, in declaration order: omitempty
\* on a zero value ends the walk, the first rule that fails ends it with that
\* rule as the field's error
\* the rule walk with omitempty never skipping
RECURSIVE FirstFailureNoSkip(_, _, _)
FirstFailureNoSkip(rules, v, parent) ==
    IF rules = <<>> THEN NoFailure
    ELSE LET r == Head(rules)
         IN  IF r.tag = "omitempty"
             THEN FirstFailureNoSkip(Tail(rules), v, parent)
             ELSE IF RuleHolds(r.tag, r.param, v, parent)
                  THEN FirstFailureNoSkip(Tail(rules), v, parent)
                  ELSE r

RECURSIVE FirstFailure(_, _, _)
FirstFailure(rules, v, parent) ==
    IF rules = <<>> THEN NoFailure
    ELSE LET r == Head(rules)
         IN  IF r.tag = "omitempty"
             THEN IF hasValue(v) THEN FirstFailure(Tail(rules), v, parent) ELSE NoFailure
             ELSE IF RuleHolds(r.tag, r.param, v, parent)
                  THEN FirstFailure(Tail(rules), v, parent)
                  ELSE r

FieldError(field, r) == [field |-> field, tag |-> r.tag, param |-> r.param]

\* validate.Struct(s): the field errors of the object, in field order, each
\* named by the registered name extractor
RECURSIVE StructErrors(_, _)
StructErrors(shape, o) ==
    IF shape = <<>> THEN <<>>
    ELSE LET fld == Head(shape)
             f == FirstFailure(fld.rules, o[fld.name], o)
             rest == StructErrors(Tail(shape), o)
         IN  IF f = NoFailure THEN rest
             ELSE <<FieldError(TagNameFunc(fld), f)>> \o rest

\* validate.Var(field, tag): a lone value has no field, its error's Field() is
\* the empty string
VarErrors(v, rules) ==
    LET f == FirstFailure(rules, v, v)
    IN  IF f = NoFailure THEN <<>> ELSE <<FieldError("", f)>>

(***************************************************************************)
(* Validator (internal/validation).                                        *)
(***************************************************************************)
\* getErrorMessage: the message of one field error
getErrorMessage(e) ==
    CASE e.tag = "required" -> e.field \o " is required"
      [] e.tag = "email"    -> e.field \o " must be a valid email address"
      [] e.tag = "min"      -> e.field \o " must be at least " \o e.param \o " characters"
      [] e.tag = "max"      -> e.field \o " must be at most " \o e.param \o " characters"
      [] e.tag = "len"      -> e.field \o " must be exactly " \o e.param \o " characters"
      [] e.tag = "numeric"  -> e.field \o " must contain only numbers"
      [] e.tag = "alphanum" -> e.field \o " must contain only letters and numbers"
      [] e.tag = "alpha"    -> e.field \o " must contain only letters"
      [] e.tag = "url"      -> e.field \o " must be a valid URL"
      [] e.tag = "uuid"     -> e.field \o " must be a valid UUID"
      [] e.tag = "password" -> "password must be at least 8 characters and contain uppercase, lowercase, number, and special character"
      [] e.tag = "username" -> "username must be 3-30 characters, alphanumeric with optional underscores and hyphens"
      [] e.tag = "slug"     -> "slug must contain only lowercase letters, numbers, and hyphens"
      [] e.tag = "oneof"    -> e.field \o " must be one of: " \o e.param
      [] e.tag = "gte"      -> e.field \o " must be greater than or equal to " \o e.param
      [] e.tag = "lte"      -> e.field \o " must be less than or equal to " \o e.param
      [] e.tag = "gt"       -> e.field \o " must be greater than " \o e.param
      [] e.tag = "lt"       -> e.field \o " must be less than " \o e.param
      [] OTHER              -> e.field \o " is invalid"

\* the loop of formatValidationError: formattedErrors[e.Field()] = message
RECURSIVE FormattedErrors(_, _)
FormattedErrors(errs, m) ==
    IF errs = <<>> THEN m
    ELSE FormattedErrors(Tail(errs), Put(m, Head(errs).field, getErrorMessage(Head(errs))))

formatValidationError(errs) == ValidationErrors(FormattedErrors(errs, EmptyMap))

\* the rule names the validator knows: the library's built-in ones the
\* documentation lists, and the three NewValidator registers
Registered ==
    {"required", "omitempty", "email", "min", "max", "len", "alpha", "alphanum",
     "numeric", "uuid", "url", "oneof", "eqfield", "gtfield", "gte", "lte",
     "gt", "lt", "dive"}
    \cup {"password", "username", "slug"}

\* the declared rule names of a shape that are not registered
UnknownRules(shape) ==
    UNION {{shape[i].rules[j].tag : j \in 1..Len(shape[i].rules)} : i \in 1..Len(shape)}
        \ Registered

\* validate.Struct reads a struct type's annotations when it first meets the
\* type, and panics there on a rule name it does not know
Panic == [kind |-> "panic", text |-> "Undefined validation function"]

\* Validate with the library's verdict ignored
ValidateAlwaysNil(shape, o) == Nil

Validate(shape, o) ==
    IF UnknownRules(shape) # {} THEN Panic
    ELSE LET errs == StructErrors(shape, o)
         IN  IF errs # <<>> THEN formatValidationError(errs) ELSE Nil

ValidateVar(v, rules) ==
    LET errs == VarErrors(v, rules)
    IN  IF errs # <<>> THEN formatValidationError(errs) ELSE Nil

\* &ValidationErrors{}: the Errors map is nil
NilMapErrors == [kind |-> "ValidationErrors", nilMap |-> TRUE]

IsNilMap(ve) == "Errors" \notin DOMAIN ve

\* ValidationErrors.GetFieldError: a missing key reads as the empty string
GetFieldError(ve, field) ==
    IF IsNilMap(ve) THEN ""
    ELSE IF field \in DOMAIN ve.Errors THEN ve.Errors[field] ELSE ""

HasFieldError(ve, field) ==
    IF IsNilMap(ve) THEN FALSE
    ELSE field \in DOMAIN ve.Errors

GetAllErrors(ve) == IF IsNilMap(ve) THEN EmptyMap ELSE ve.Errors

(***************************************************************************)
(* ValidationErrorHelper (internal/utils): the query helpers over an error  *)
(* of any kind.                                                             *)
(***************************************************************************)
\* the helper with the type assertion taken for granted: whatever has a
\* message under the name "text" is read as a one-entry map
HelperGetFieldErrorAnyKind(err, field) ==
    IF err.kind = "ValidationErrors" THEN GetFieldError(err, field)
    ELSE IF err.kind = "error" THEN err.text ELSE ""

HelperGetFieldError(err, field) ==
    IF err.kind = "ValidationErrors" THEN GetFieldError(err, field) ELSE ""

HelperHasFieldError(err, field) ==
    IF err.kind = "ValidationErrors" THEN HasFieldError(err, field) ELSE FALSE

(***************************************************************************)
(* ValidationMiddleware.ValidatePartial (internal/middleware).             *)
(***************************************************************************)
\* reflect's Type.FieldByName: the field whose Go identifier is the name
FieldFound(shape, fieldName) == \E i \in 1..Len(shape) : shape[i].name = fieldName

FieldByName(shape, fieldName) ==
    shape[CHOOSE i \in 1..Len(shape) : shape[i].name = fieldName]

\* the loop with a return in place of the continue: it ends at the first name
\* the shape does not have
RECURSIVE PartialLoopReturnsAtMissing(_, _, _, _)
PartialLoopReturnsAtMissing(shape, o, fields, acc) ==
    IF fields = <<>> THEN acc
    ELSE LET fieldName == Head(fields)
             rest == Tail(fields)
         IN  IF ~FieldFound(shape, fieldName)
             THEN [acc EXCEPT !.errors = Put(@, fieldName, "field not found")]
             ELSE LET field == FieldByName(shape, fieldName)
                  IN  IF field.rules = <<>>
                      THEN PartialLoopReturnsAtMissing(shape, o, rest, acc)
                      ELSE LET err == ValidateVar(o[fieldName], field.rules)
                               msg == IF err = Nil THEN "" ELSE GetFieldError(err, fieldName)
                               done == [acc EXCEPT !.evaluated = Append(@, fieldName)]
                           IN  PartialLoopReturnsAtMissing(shape, o, rest,
                                   IF msg # ""
                                   THEN [done EXCEPT !.errors = Put(@, fieldName, msg)]
                                   ELSE done)

\* the loop over the requested names; "evaluated" lists the fields handed to
\* ValidateVar
RECURSIVE PartialLoop(_, _, _, _)
PartialLoop(shape, o, fields, acc) ==
    IF fields = <<>> THEN acc
    ELSE LET fieldName == Head(fields)
             rest == Tail(fields)
         IN  IF ~FieldFound(shape, fieldName)
             THEN PartialLoop(shape, o, rest,
                      [acc EXCEPT !.errors = Put(@, fieldName, "field not found")])
             ELSE LET field == FieldByName(shape, fieldName)
                  IN  IF field.rules = <<>>
                      THEN PartialLoop(shape, o, rest, acc)
                      ELSE LET err == ValidateVar(o[fieldName], field.rules)
                               msg == IF err = Nil THEN "" ELSE GetFieldError(err, fieldName)
                               done == [acc EXCEPT !.evaluated = Append(@, fieldName)]
                           IN  PartialLoop(shape, o, rest,
                                   IF msg # ""
                                   THEN [done EXCEPT !.errors = Put(@, fieldName, msg)]
                                   ELSE done)

\* ValidatePartial without the shortcut for an empty list of names
ValidatePartialLoopOnly(shape, o, fields) ==
    LET errors == PartialLoop(shape, o, fields,
                              [errors |-> EmptyMap, evaluated |-> <<>>]).errors
    IN  IF DOMAIN errors # {} THEN ValidationErrors(errors) ELSE Nil

PartialRun(shape, o, fields) ==
    PartialLoop(shape, o, fields, [errors |-> EmptyMap, evaluated |-> <<>>])

ValidatePartial(shape, o, fields) ==
    IF Len(fields) = 0 THEN Validate(shape, o)
    ELSE LET errors == PartialRun(shape, o, fields).errors
         IN  IF DOMAIN errors # {} THEN ValidationErrors(errors) ELSE Nil

(***************************************************************************)
(* The request-scope adapters (internal/middleware/validation.go).         *)
(*                                                                         *)
(* Each adapter handler is built once, at route registration, around the   *)
(* candidate object it was given (ValidateBody(&UserUpdate{})): "model"    *)
(* holds that one object per adapter.  A request's Locals map a key to the *)
(* pointer it was given, named here by the adapter that owns the object.   *)
(***************************************************************************)
StatusOK == 200

StatusBadRequest == 400

StatusUnprocessableEntity == 422

Sources == {"body", "query", "params", "headers"}

\* the routes registered: each a chain of adapters in front of the final handler
Routes == { <<"body">>, <<"query">>, <<"params">>, <<"headers">>, <<"custom">>,
            <<"params", "body">> }

Reqs == 1..NumReqs

\* the key an adapter stores its object under
Key(src) == "validated_" \o src

\* what the external parser makes of a request's raw source: a failure, or the
\* fields the source carries, which it assigns on the candidate object
ParseFailure == [ok |-> FALSE, set |-> EmptyMap]

Carries(f) == [ok |-> TRUE, set |-> f]

Payloads ==
    { ParseFailure,
      Carries("Email" :> <<97, 97>>),
      Carries(("Email" :> <<97, 97>>) @@ ("Username" :> <<97, 97>>)),
      Carries("Username" :> <<97, 49>>) }

\* c.BodyParser(model), c.QueryParser(model), c.ParamsParser(model),
\* json.Unmarshal(jsonData, model): the fields the source carries are assigned,
\* the others keep the value the object already holds
ParseInto(o, payload) ==
    [n \in DOMAIN o |-> IF n \in DOMAIN payload.set THEN payload.set[n] ELSE o[n]]

\* what the supplied predicate of ValidateCustom may return
PredicateResults ==
    { Nil,
      ValidationErrors("code" :> "code is not accepted"),
      PlainError("Custom validation failed") }

\* formatValidationErrors of the middleware
formatValidationErrors(err) ==
    IF err.kind = "ValidationErrors" THEN GetAllErrors(err)
    ELSE "general" :> err.text

ParseFailError(src) ==
    CASE src = "body"    -> "Invalid request body"
      [] src = "query"   -> "Invalid query parameters"
      [] src = "params"  -> "Invalid route parameters"
      [] src = "headers" -> "Invalid headers"

ParseFailMessage(src) ==
    CASE src = "body"    -> "Failed to parse request body"
      [] src = "query"   -> "Failed to parse query parameters"
      [] src = "params"  -> "Failed to parse route parameters"
      [] src = "headers" -> "Failed to parse headers"

RuleFailMessage(src) ==
    CASE src = "body"    -> "Request body validation failed"
      [] src = "query"   -> "Query parameter validation failed"
      [] src = "params"  -> "Route parameter validation failed"
      [] src = "headers" -> "Header validation failed"
      [] src = "custom"  -> "Custom validation failed"

\* the status each adapter answers a parse failure with
ParseFailStatus(src) == StatusBadRequest

\* the status each adapter answers a failed validation with
RuleFailStatus(src) ==
    CASE src = "body"    -> StatusUnprocessableEntity
      [] src = "query"   -> StatusBadRequest
      [] src = "params"  -> StatusBadRequest
      [] src = "headers" -> StatusBadRequest
      [] src = "custom"  -> StatusUnprocessableEntity

Response(status, body) == [status |-> status, body |-> body]

NoResponse == Response(0, EmptyMap)

\* c.Status(400).JSON(fiber.Map{error, message, details: err.Error()})
ParseFailResponse(src) ==
    Response(ParseFailStatus(src),
             [error |-> ParseFailError(src), message |-> ParseFailMessage(src),
              details |-> "cannot parse"])

\* c.Status(..).JSON(fiber.Map{error, message, details: formatValidationErrors(err)})
RuleFailResponse(src, err) ==
    Response(RuleFailStatus(src),
             [error |-> "Validation failed", message |-> RuleFailMessage(src),
              details |-> formatValidationErrors(err)])

Ev(ev, src, ok, status) == [ev |-> ev, src |-> src, ok |-> ok, status |-> status]

IdleReq ==
    [pc |-> "idle", route |-> <<>>, idx |-> 0, parsed |-> EmptyMap,
     locals |-> EmptyMap, trace |-> <<>>, response |-> NoResponse, seen |-> EmptyMap,
     got |-> EmptyMap, perr |-> Nil]

PcOf(adapter) == IF adapter = "custom" THEN "custom" ELSE "parse"

\* the adapter answers with an error response and returns: the chain ends
Respond(q, resp) ==
    [q EXCEPT !.pc = "done", !.response = resp,
              !.trace = Append(@, Ev("respond", q.route[q.idx], FALSE, resp.status))]

\* c.Next(): control passes to the next handler of the route
CallNext(q) ==
    LET t == [q EXCEPT !.trace = Append(@, Ev("next", q.route[q.idx], TRUE, 0))]
    IN  IF q.idx < Len(q.route)
        THEN [t EXCEPT !.idx = q.idx + 1, !.pc = PcOf(q.route[q.idx + 1])]
        ELSE [t EXCEPT !.pc = "handler"]

\* a store that replaces the request's Locals by the one new entry
StoreLocalAlone(q, src) ==
    [q EXCEPT !.locals = Key(src) :> src,
              !.trace = Append(@, Ev("store", src, TRUE, 0))]

\* c.Locals(key, model)
StoreLocal(q, src) ==
    [q EXCEPT !.locals = Put(@, Key(src), src),
              !.trace = Append(@, Ev("store", src, TRUE, 0))]

\* the adapter after a failed validation, with the failure overlooked
AfterValidateAlwaysNext(q, src, err) == CallNext(StoreLocal(q, src))

\* the adapter after Validate returned: the error response, or the store under
\* the source's key followed by Next
AfterValidate(q, src, err) ==
    IF err # Nil THEN Respond(q, RuleFailResponse(src, err))
    ELSE CallNext(StoreLocal(q, src))

\* the struct type of the candidate object each adapter was built around
ModelType(src) == "UserUpdate"

\* the type parameters a handler may retrieve with
Types == {"UserUpdate", "IDParam"}

NilPointer == "nil"

\* the getter with the type assertion dropped: whatever the Locals hold under
\* the key is returned as found
GetValidatedUnchecked(locals, src, T) ==
    IF Key(src) \in DOMAIN locals
    THEN [ptr |-> locals[Key(src)], found |-> TRUE]
    ELSE [ptr |-> NilPointer, found |-> TRUE]

\* GetValidatedBody/Query/Params/Headers[T]: c.Locals(key).(*T)
GetValidated(locals, src, T) ==
    IF Key(src) \in DOMAIN locals /\ ModelType(locals[Key(src)]) = T
    THEN [ptr |-> locals[Key(src)], found |-> TRUE]
    ELSE [ptr |-> NilPointer, found |-> FALSE]

\* the adapter after a failed parse, with the error overlooked: the object is
\* handed to Validate all the same
AfterParseForwards(q, src, payload) ==
    [q EXCEPT !.pc = "validate", !.parsed = Put(@, Key(src), payload.set)]

\* the adapter after the parser returned: the 400 response and return, or on
\* to Validate
AfterParse(q, src, payload) ==
    IF ~payload.ok THEN Respond(q, ParseFailResponse(src))
    ELSE [q EXCEPT !.pc = "validate", !.parsed = Put(@, Key(src), payload.set)]

\* ValidateCustom after the predicate returned, with its error overlooked
AfterPredicateAlwaysNext(q, err) == CallNext(q)

\* ValidateCustom after the predicate returned: the 422 response, or Next
AfterPredicate(q, err) ==
    IF err # Nil THEN Respond(q, RuleFailResponse("custom", err))
    ELSE CallNext(q)

\* a request reaches a route; requests are numbered in their order of arrival
Arrive(r) ==
    /\ req[r].pc = "idle"
    /\ \A earlier \in Reqs : earlier < r => req[earlier].pc # "idle"
    /\ \E route \in Routes :
          req' = [req EXCEPT ![r] = [IdleReq EXCEPT !.route = route, !.idx = 1,
                                                   !.pc = PcOf(route[1])]]
    /\ UNCHANGED <<model, obj, call>>

\* the first half of ValidateBody/Query/Params/Headers: the source is parsed
\* into the adapter's candidate object.  (ValidateHeaders first marshals a map
\* of strings, which cannot fail.)
ParseStep(r) ==
    /\ req[r].pc = "parse"
    /\ LET q == req[r]
           src == q.route[q.idx]
       IN  \E payload \in Payloads :
              LET logged == [q EXCEPT !.trace = Append(@, Ev("parse", src, payload.ok, 0))]
              IN  /\ model' = IF payload.ok
                              THEN [model EXCEPT ![src] = ParseInto(@, payload)]
                              ELSE model
                  /\ req' = [req EXCEPT ![r] = AfterParse(logged, src, payload)]
    /\ UNCHANGED <<obj, call>>

\* the second half: the candidate object is validated, then stored and passed
\* on, or refused
ValidateStep(r) ==
    /\ req[r].pc = "validate"
    /\ LET q == req[r]
           src == q.route[q.idx]
           err == Validate(Shape, model[src])
           logged == [q EXCEPT !.trace = Append(@, Ev("validate", src, err = Nil, 0))]
       IN  req' = [req EXCEPT ![r] = AfterValidate(logged, src, err)]
    /\ UNCHANGED <<model, obj, call>>

\* ValidateCustom: the supplied predicate decides
CustomStep(r) ==
    /\ req[r].pc = "custom"
    /\ LET q == req[r]
       IN  \E err \in PredicateResults :
              LET logged == [q EXCEPT !.perr = err,
                                      !.trace = Append(@, Ev("predicate", "custom", err = Nil, 0))]
              IN  req' = [req EXCEPT ![r] = AfterPredicate(logged, err)]
    /\ UNCHANGED <<model, obj, call>>

\* the route's final handler: GetValidatedBody/Query/Params/Headers read the
\* objects the Locals point to; "got" holds what each getter returns for each
\* type parameter
HandlerStep(r) ==
    /\ req[r].pc = "handler"
    /\ LET q == req[r]
       IN  req' = [req EXCEPT ![r] =
                      [q EXCEPT !.pc = "done",
                                !.seen = [k \in DOMAIN q.locals |-> model[q.locals[k]]],
                                !.got = [g \in Sources \X Types |->
                                            GetValidated(q.locals, g[1], g[2])],
                                !.response = Response(StatusOK, [message |-> "success"])]]
    /\ UNCHANGED <<model, obj, call>>

Init ==
    /\ req = [r \in Reqs |-> IdleReq]
    /\ model = [src \in Sources |-> ZeroObj]
    /\ obj = ZeroObj
    /\ call = [op |-> "none", fields |-> <<>>, result |-> Nil, evaluated |-> <<>>]

Next ==
    \E r \in Reqs :
        \/ Arrive(r)
        \/ ParseStep(r)
        \/ ValidateStep(r)
        \/ CustomStep(r)
        \/ HandlerStep(r)

Spec == Init /\ [][Next]_vars

(***************************************************************************)
(* The engine specification: one object of the shape is drawn, then one    *)
(* call of Validate or ValidatePartial is made on it.                      *)
(***************************************************************************)
\* the names a caller may hand to ValidatePartial: Go identifiers, external
\* names, and a name the shape does not have
PartialNames == FieldNames \cup {TagNameFunc(Shape[i]) : i \in 1..Len(Shape)} \cup {"Phone"}

NoCall == [op |-> "none", fields |-> <<>>, result |-> Nil, evaluated |-> <<>>]

\* an engine that normalises what it checks: every field is emptied
ObjectCleared(o) == [n \in DOMAIN o |-> <<>>]

\* the candidate object after validate.Struct / validate.Var and the reflect
\* reads of ValidatePartial went over it: they read the fields and set none
ObjectAfterCheck(o) == o

CallValidate ==
    /\ call.op = "none"
    /\ call' = [op |-> "Validate", fields |-> <<>>,
                result |-> Validate(Shape, obj), evaluated |-> <<>>]
    /\ obj' = ObjectAfterCheck(obj)
    /\ UNCHANGED <<req, model>>

CallValidatePartial ==
    /\ call.op = "none"
    /\ \E fields \in SeqsUpTo(PartialNames, MaxFields) :
          call' = [op |-> "ValidatePartial", fields |-> fields,
                   result |-> ValidatePartial(Shape, obj, fields),
                   evaluated |-> PartialRun(Shape, obj, fields).evaluated]
    /\ obj' = ObjectAfterCheck(obj)
    /\ UNCHANGED <<req, model>>

InitEngine ==
    /\ obj \in Objects
    /\ call = NoCall
    /\ req = <<>>
    /\ model = <<>>

NextEngine == CallValidate \/ CallValidatePartial

SpecEngine == InitEngine /\ [][NextEngine]_vars

(***************************************************************************)
(* The registration specification: one object of a second shape is drawn   *)
(* and Validate is called on it.  The shape has the password pair of       *)
(* UserRegistration, an omitempty field of SearchQuery, and a field whose   *)
(* annotation is a lone min rule, neither required nor omitempty.           *)
(***************************************************************************)
RegShape ==
    << [name  |-> "Password",
        json  |-> <<"p", "a", "s", "s", "w", "o", "r", "d">>,
        rules |-> <<Rule("required", ""), Rule("password", ""), Rule("min", "8")>>],
       [name  |-> "ConfirmPassword",
        json  |-> <<"c", "o", "n", "f", "i", "r", "m", "_", "p", "a", "s", "s", "w", "o", "r", "d">>,
        rules |-> <<Rule("required", ""), Rule("eqfield", "Password")>>],
       [name  |-> "Type",
        json  |-> <<"t", "y", "p", "e", ",", "o", "m", "i", "t", "e", "m", "p", "t", "y">>,
        rules |-> <<Rule("omitempty", ""), Rule("oneof", "posts users tags")>>],
       [name  |-> "Token",
        json  |-> <<"t", "o", "k", "e", "n">>,
        rules |-> <<Rule("min", "8")>>] >>

\* the objects of the registration shape the specification draws
RegObjects ==
    [Password        : {<<>>, Str.Abc12345, Str.different, Str.weak},
     ConfirmPassword : {<<>>, Str.Abc12345, Str.different, Str.weak},
     Type            : {<<>>, Str.posts, Str.weak},
     Token           : {<<>>, Str.weak, Str.different}]

CallValidateRegistration ==
    /\ call.op = "none"
    /\ call' = [op |-> "Validate", fields |-> <<>>,
                result |-> Validate(RegShape, obj), evaluated |-> <<>>]
    /\ UNCHANGED <<obj, req, model>>

InitRegistration ==
    /\ obj \in RegObjects
    /\ call = NoCall
    /\ req = <<>>
    /\ model = <<>>

NextRegistration == CallValidateRegistration

SpecRegistration == InitRegistration /\ [][NextRegistration]_vars

(***************************************************************************)
(* The helpers specification: an error and a field name are drawn and one   *)
(* of the query helpers is called on them.                                  *)
(***************************************************************************)
\* one call of a function of the package: its name and what it returned
CallOf(op, result) ==
    [op |-> op, fields |-> <<>>, result |-> result, evaluated |-> <<>>]

HelperKeys == {"email", "username", "password"}

HelperMaps == UNION {[S -> {"is required", ""}] : S \in SUBSET HelperKeys}

HelperErrs ==
    {Nil, PlainError("connection refused"), NilMapErrors}
    \cup {ValidationErrors(m) : m \in HelperMaps}

CallHelperHasFieldError ==
    /\ call.op = "none"
    /\ call' = CallOf("HasFieldError", HelperHasFieldError(obj.err, obj.field))
    /\ UNCHANGED <<obj, req, model>>

CallHelperGetFieldError ==
    /\ call.op = "none"
    /\ call' = CallOf("GetFieldError", HelperGetFieldError(obj.err, obj.field))
    /\ UNCHANGED <<obj, req, model>>

\* the methods called on a *ValidationErrors the caller already holds
CallHasFieldError ==
    /\ call.op = "none"
    /\ obj.err.kind = "ValidationErrors"
    /\ call' = CallOf("ve.HasFieldError", HasFieldError(obj.err, obj.field))
    /\ UNCHANGED <<obj, req, model>>

CallGetFieldError ==
    /\ call.op = "none"
    /\ obj.err.kind = "ValidationErrors"
    /\ call' = CallOf("ve.GetFieldError", GetFieldError(obj.err, obj.field))
    /\ UNCHANGED <<obj, req, model>>

InitHelpers ==
    /\ obj \in [err : HelperErrs, field : (HelperKeys \cup {"confirm_password"})]
    /\ call = NoCall
    /\ req = <<>>
    /\ model = <<>>

NextHelpers ==
    \/ CallHelperHasFieldError
    \/ CallHelperGetFieldError
    \/ CallHasFieldError
    \/ CallGetFieldError

SpecHelpers == InitHelpers /\ [][NextHelpers]_vars

(***************************************************************************)
(* The transaction specification: one call of DB.WithTransaction           *)
(* (internal/database).  "model" is what the database holds committed,      *)
(* "req" is the call: its position, the function's variable err declared    *)
(* by tx, err := db.BeginTx, the statements the transaction has pending,    *)
(* and what the call hands back to its caller.                              *)
(***************************************************************************)
\* most statements fn executes on the transaction
MaxStmts == 3

Statements == {"insert a", "insert b", "delete a"}

TxPanic == [kind |-> "panic", text |-> "fn panicked"]

TxIdle ==
    [pc |-> "idle", err |-> Nil, begun |-> FALSE, pending |-> <<>>,
     fn |-> "none", commits |-> 0, rollbacks |-> 0, committed |-> FALSE,
     ret |-> Nil]

\* tx, err := db.BeginTx(ctx, nil); if err != nil { return fmt.Errorf(...) }
BeginTx ==
    /\ req.pc = "idle"
    /\ \E ok \in BOOLEAN :
          req' = IF ok
                 THEN [req EXCEPT !.pc = "fn", !.begun = TRUE]
                 ELSE [req EXCEPT !.pc = "returned",
                                  !.err = PlainError("begin failed"),
                                  !.ret = PlainError("failed to begin transaction: begin failed")]
    /\ UNCHANGED <<obj, call, model>>

\* fn executes a statement on the transaction
Exec ==
    /\ req.pc = "fn"
    /\ Len(req.pending) < MaxStmts
    /\ \E st \in Statements : req' = [req EXCEPT !.pending = Append(@, st)]
    /\ UNCHANGED <<obj, call, model>>

\* if err := fn(tx); err != nil { return fmt.Errorf(...) }; return nil
\* The err of the if statement is a new variable of that statement: the
\* function's err keeps its value.  The function has no named result, so the
\* value of the return statement is what the caller gets.
FnEnds ==
    /\ req.pc = "fn"
    /\ \E outcome \in {"nil", "error", "panic"} :
          req' = [req EXCEPT
                     !.pc = "deferred",
                     !.fn = outcome,
                     !.ret = CASE outcome = "nil"   -> Nil
                               [] outcome = "error" ->
                                    PlainError("transaction function failed: fn failed")
                               [] outcome = "panic" -> TxPanic]
    /\ UNCHANGED <<obj, call, model>>

\* the deferred function: after a panic, Rollback and panic again; otherwise
\* Rollback when the function's err is set, else err = tx.Commit()
Deferred ==
    /\ req.pc = "deferred"
    /\ IF req.fn = "panic"
       THEN /\ req' = [req EXCEPT !.pc = "returned", !.rollbacks = @ + 1,
                                  !.pending = <<>>]
            /\ UNCHANGED model
       ELSE IF req.err # Nil
       THEN /\ req' = [req EXCEPT !.pc = "returned", !.rollbacks = @ + 1,
                                  !.pending = <<>>]
            /\ UNCHANGED model
       ELSE \E ok \in BOOLEAN :
               /\ req' = [req EXCEPT !.pc = "returned", !.commits = @ + 1,
                                     !.committed = ok,
                                     !.pending = <<>>,
                                     !.err = IF ok THEN Nil
                                             ELSE PlainError("commit failed")]
               /\ model' = IF ok THEN model \o req.pending ELSE model
    /\ UNCHANGED <<obj, call>>

InitTx ==
    /\ req = TxIdle
    /\ model = <<>>
    /\ obj = <<>>
    /\ call = NoCall

NextTx == BeginTx \/ Exec \/ FnEnds \/ Deferred

SpecTx == InitTx /\ [][NextTx]_vars

(***************************************************************************)
(* The startup specification: adapters are built around shapes while the   *)
(* routes are defined, the server starts to listen, and requests reach the  *)
(* adapters.  One of the shapes declares a rule name nobody registered.     *)
(***************************************************************************)
\* the candidate shape with an unregistered rule on its first field
BadShape ==
    << [name  |-> "Email",
        json  |-> <<"e", "m", "a", "i", "l">>,
        rules |-> <<Rule("required", ""), Rule("business_logic", "")>>],
       Shape[2],
       Shape[3] >>

ShapeOf(name) == IF name = "BusinessRequest" THEN BadShape ELSE Shape

StatusInternalServerError == 500

Defining == [phase |-> "defining", adapters |-> {}, response |-> NoResponse]

\* ValidateBody(model) while the routes are defined: the closure is returned,
\* the model's annotations are not looked at
BuildAdapter ==
    /\ req.phase = "defining"
    /\ \E name \in {"UserUpdate", "BusinessRequest"} :
          /\ name \notin req.adapters
          /\ req' = [req EXCEPT !.adapters = @ \cup {name}]
    /\ UNCHANGED <<obj, call, model>>

\* app.Listen
Listen ==
    /\ req.phase = "defining"
    /\ req.adapters # {}
    /\ req' = [req EXCEPT !.phase = "serving"]
    /\ UNCHANGED <<obj, call, model>>

\* a request whose body parses reaches an adapter: Validate runs on the parsed
\* object; a panic is caught by the Recover middleware, which answers 500
ServeRequest ==
    /\ req.phase = "serving"
    /\ call.op = "none"
    /\ \E name \in req.adapters, o \in Objects :
          LET err == Validate(ShapeOf(name), o)
          IN  /\ obj' = o
              /\ call' = [op |-> "request", fields |-> <<name>>, result |-> err,
                          evaluated |-> <<>>]
              /\ req' = [req EXCEPT !.response =
                            CASE err.kind = "panic" ->
                                   Response(StatusInternalServerError, EmptyMap)
                              [] err.kind = "nil" ->
                                   Response(StatusOK, [message |-> "success"])
                              [] OTHER -> RuleFailResponse("body", err)]
    /\ UNCHANGED model

\* the response has been written: the server is ready for the next request
Complete ==
    /\ req.phase = "serving"
    /\ call.op = "request"
    /\ call' = NoCall
    /\ obj' = ZeroObj
    /\ req' = [req EXCEPT !.response = NoResponse]
    /\ UNCHANGED model

InitStartup ==
    /\ req = Defining
    /\ obj = ZeroObj
    /\ call = NoCall
    /\ model = <<>>

NextStartup == BuildAdapter \/ Listen \/ ServeRequest \/ Complete

SpecStartup == InitStartup /\ [][NextStartup]_vars

(***************************************************************************)
(* The error reporter (internal/utils): ValidationErrorBuilder, the        *)
(* shortcuts of ValidationResponseBuilder and GlobalValidationErrorHandler. *)
(* A builder is the ValidationErrorResponse it points to.                   *)
(***************************************************************************)
StatusNotFound == 404

NewValidationErrorBuilder ==
    [Error |-> "Validation failed", Message |-> "Request validation failed",
     Details |-> EmptyMap, Status |-> StatusUnprocessableEntity]

WithError(b, error) == [b EXCEPT !.Error = error]

WithMessage(b, message) == [b EXCEPT !.Message = message]

WithStatus(b, status) == [b EXCEPT !.Status = status]

WithDetails(b, details) == [b EXCEPT !.Details = details]

WithValidationErrors(b, err) ==
    [b EXCEPT !.Details = IF err.kind = "ValidationErrors" THEN GetAllErrors(err)
                          ELSE "general" :> err.text]

\* the JSON of a ValidationErrorResponse: details is left out when empty
JsonOf(response) ==
    IF DOMAIN response.Details = {}
    THEN [error |-> response.Error, message |-> response.Message,
          status |-> response.Status]
    ELSE [error |-> response.Error, message |-> response.Message,
          details |-> response.Details, status |-> response.Status]

\* Send answering with the default status whatever the builder holds
SendDefaultStatus(b) == Response(StatusUnprocessableEntity, JsonOf(b))

\* c.Status(b.response.Status).JSON(b.response)
Send(b) == Response(b.Status, JsonOf(b))

\* a *fiber.Error
FiberError(code, message) == [kind |-> "fiber", Code |-> code, text |-> message]

\* the handler with every framework error taken for a request error
GlobalHandlerAnyFiberCode(err) ==
    IF err.kind = "ValidationErrors"
    THEN Send(WithValidationErrors(NewValidationErrorBuilder, err))
    ELSE IF err.kind = "fiber"
    THEN Send(WithStatus(WithMessage(WithError(NewValidationErrorBuilder,
                                               "Request Error"), err.text), err.Code))
    ELSE Response(StatusInternalServerError,
                  [error |-> "Internal Server Error",
                   message |-> "An unexpected error occurred",
                   status |-> StatusInternalServerError])

GlobalValidationErrorHandler(err) ==
    IF err.kind = "ValidationErrors"
    THEN Send(WithValidationErrors(NewValidationErrorBuilder, err))
    ELSE IF err.kind = "fiber"
            /\ (err.Code = StatusUnprocessableEntity \/ err.Code = StatusBadRequest)
    THEN Send(WithStatus(WithMessage(WithError(NewValidationErrorBuilder,
                                               "Request Error"), err.text), err.Code))
    ELSE Response(StatusInternalServerError,
                  [error |-> "Internal Server Error",
                   message |-> "An unexpected error occurred",
                   status |-> StatusInternalServerError])

(***************************************************************************)
(* The reporter specification.  "req" is one builder and whether WithStatus *)
(* was called on it; "call" is the response last sent and "obj" the error   *)
(* it was sent for.                                                         *)
(***************************************************************************)
ReporterStatuses ==
    {StatusBadRequest, StatusNotFound, StatusUnprocessableEntity,
     StatusInternalServerError}

ReporterTexts == {"Bad Request", "email already taken"}

ReporterMaps == {"email" :> "email is required", EmptyMap}

ReporterErrs ==
    {ValidationErrors(m) : m \in ReporterMaps}
    \cup {NilMapErrors, PlainError("connection refused")}
    \cup {FiberError(code, "Cannot parse") : code \in ReporterStatuses}

FreshBuilder == [b |-> NewValidationErrorBuilder, statusSet |-> FALSE, sent |-> FALSE]

CallWithError ==
    /\ ~req.sent
    /\ \E t \in ReporterTexts : req' = [req EXCEPT !.b = WithError(@, t)]
    /\ UNCHANGED <<obj, call, model>>

CallWithMessage ==
    /\ ~req.sent
    /\ \E t \in ReporterTexts : req' = [req EXCEPT !.b = WithMessage(@, t)]
    /\ UNCHANGED <<obj, call, model>>

CallWithStatus ==
    /\ ~req.sent
    /\ \E st \in ReporterStatuses :
          req' = [req EXCEPT !.b = WithStatus(@, st), !.statusSet = TRUE]
    /\ UNCHANGED <<obj, call, model>>

CallWithDetails ==
    /\ ~req.sent
    /\ \E m \in ReporterMaps : req' = [req EXCEPT !.b = WithDetails(@, m)]
    /\ UNCHANGED <<obj, call, model>>

CallWithValidationErrors ==
    /\ ~req.sent
    /\ \E err \in {e \in ReporterErrs : e.kind # "fiber"} :
          req' = [req EXCEPT !.b = WithValidationErrors(@, err)]
    /\ UNCHANGED <<obj, call, model>>

CallSend ==
    /\ ~req.sent
    /\ req' = [req EXCEPT !.sent = TRUE]
    /\ call' = CallOf("Send", Send(req.b))
    /\ UNCHANGED <<obj, model>>

\* ValidationResponseBuilder.NotFound(message): a builder of its own, sent
CallNotFound ==
    /\ req = FreshBuilder
    /\ \E t \in ReporterTexts :
          LET b == WithStatus(WithMessage(WithError(NewValidationErrorBuilder,
                                                    "Not Found"), t), StatusNotFound)
          IN  /\ req' = [b |-> b, statusSet |-> TRUE, sent |-> TRUE]
              /\ call' = CallOf("Send", Send(b))
    /\ UNCHANGED <<obj, model>>

\* the application's error handler is handed an error
CallGlobalHandler ==
    /\ req = FreshBuilder
    /\ \E err \in ReporterErrs :
          /\ obj' = err
          /\ call' = CallOf("GlobalValidationErrorHandler",
                                GlobalValidationErrorHandler(err))
          /\ req' = [req EXCEPT !.sent = TRUE]
    /\ UNCHANGED model

InitReporter ==
    /\ req = FreshBuilder
    /\ obj = Nil
    /\ call = NoCall
    /\ model = <<>>

NextReporter ==
    \/ CallWithError
    \/ CallWithMessage
    \/ CallWithStatus
    \/ CallWithDetails
    \/ CallWithValidationErrors
    \/ CallSend
    \/ CallNotFound
    \/ CallGlobalHandler

SpecReporter == InitReporter /\ [][NextReporter]_vars

(***************************************************************************)
(* The readiness specification: main loads the configuration, tries the    *)
(* optional database connection, builds the health handler around the      *)
(* handle it got and serves.  "model" is the environment: the configuration *)
(* that will be loaded and whether the database answers; "req" is the       *)
(* process.                                                                 *)
(***************************************************************************)
StatusServiceUnavailable == 503

NoHandle == "nil"

Environments == [Database : BOOLEAN, DBURL : {"", "postgres://app@db/app", "not a url"}, configOk : BOOLEAN, dbUp : BOOLEAN]

\* Config.DatabaseEnabled
DatabaseEnabled(cfg) == cfg.Database /\ cfg.DBURL # ""

\* database.NewConnection: the handle, or nil with an error
NewConnection(dbURL, dbUp) ==
    IF dbURL = "" THEN NoHandle
    ELSE IF dbURL = "not a url" THEN NoHandle
    ELSE IF ~dbUp THEN NoHandle
    ELSE "conn"

Process == [phase |-> "starting", db |-> NoHandle, tried |-> FALSE, response |-> NoResponse]

\* config.LoadConfig: a failure ends the process (log.Fatalf)
LoadConfig ==
    /\ req.phase = "starting"
    /\ req' = [req EXCEPT !.phase = IF model.configOk THEN "loaded" ELSE "exited"]
    /\ UNCHANGED <<obj, call, model>>

\* main after NewConnection returned: a warning or an info line is logged and
\* startup goes on with whatever handle there is
AfterConnect(q, handle) == [q EXCEPT !.phase = "wired", !.db = handle, !.tried = TRUE]

\* the optional database connection
InitDatabase ==
    /\ req.phase = "loaded"
    /\ req' = IF DatabaseEnabled(model)
              THEN AfterConnect(req, NewConnection(model.DBURL, model.dbUp))
              ELSE [req EXCEPT !.phase = "wired"]
    /\ UNCHANGED <<obj, call, model>>

\* NewHealthHandler(cfg, services.DB), routes, app.Listen
StartServer ==
    /\ req.phase = "wired"
    /\ req' = [req EXCEPT !.phase = "serving"]
    /\ UNCHANGED <<obj, call, model>>

\* the database starts or stops answering
DatabaseFlips ==
    /\ req.phase # "exited"
    /\ model' = [model EXCEPT !.dbUp = ~@]
    /\ UNCHANGED <<obj, call, req>>

\* Ready answering 503 whenever it holds no handle
ReadyIgnoresFeature(cfg, db) ==
    IF db = NoHandle
    THEN Response(StatusServiceUnavailable,
                  [status |-> "degraded", details |-> "database required but not connected"])
    ELSE Response(StatusOK, [status |-> "ready"])

\* HealthHandler.Ready
Ready(cfg, db) ==
    IF DatabaseEnabled(cfg) /\ db = NoHandle
    THEN Response(StatusServiceUnavailable,
                  [status |-> "degraded", details |-> "database required but not connected"])
    ELSE Response(StatusOK, [status |-> "ready"])

GetReady ==
    /\ req.phase = "serving"
    /\ req' = [req EXCEPT !.response = Ready(model, req.db)]
    /\ UNCHANGED <<obj, call, model>>

\* HealthHandler.Live
GetLive ==
    /\ req.phase = "serving"
    /\ req' = [req EXCEPT !.response = Response(StatusOK, [status |-> "alive"])]
    /\ UNCHANGED <<obj, call, model>>

\* HealthHandler.Check
GetHealth ==
    /\ req.phase = "serving"
    /\ req' = [req EXCEPT !.response =
                  Response(StatusOK, [status |-> "ok", message |-> "Service is healthy"])]
    /\ UNCHANGED <<obj, call, model>>

InitReady ==
    /\ model \in Environments
    /\ req = Process
    /\ obj = <<>>
    /\ call = NoCall

NextReady ==
    \/ LoadConfig
    \/ InitDatabase
    \/ StartServer
    \/ DatabaseFlips
    \/ GetReady
    \/ GetLive
    \/ GetHealth

SpecReady == InitReady /\ [][NextReady]_vars

(***************************************************************************)
(* The rules specification: one string is drawn and one of the three       *)
(* custom validators is called on it.  The strings are the examples of the  *)
(* documentation and every short string over RuleChars followed by a run    *)
(* of 'a', which reaches the lengths on both sides of every bound.          *)
(***************************************************************************)
\* longest drawn prefix, in code points
MaxCore == 3

\* longest run of 'a' appended to a prefix
MaxPad == 28

\* 'A', 'a', '1', '!', ' ', e-acute (two bytes in UTF-8), '-'
RuleChars == {65, 97, 49, 33, 32, 233, 45}

NamedInputs ==
    {Str.SecurePass123, Str.weak, Str.alllowercase123, Str.test_user_1,
     Str.bad_user, Str.my_post_1, Str.leading, Str.trailing, Str.Has_Upper,
     Str.Aa1eee, Str.Abc12345, Str.different}

Pad(n) == [i \in 1..n |-> 97]

RuleInputs ==
    NamedInputs \cup {core \o Pad(n) : core \in SeqsUpTo(RuleChars, MaxCore), n \in 0..MaxPad}

CallPassword ==
    /\ call.op = "none"
    /\ call' = CallOf("password", validatePassword(obj))
    /\ UNCHANGED <<obj, req, model>>

CallUsername ==
    /\ call.op = "none"
    /\ call' = CallOf("username", validateUsername(obj))
    /\ UNCHANGED <<obj, req, model>>

CallSlug ==
    /\ call.op = "none"
    /\ call' = CallOf("slug", validateSlug(obj))
    /\ UNCHANGED <<obj, req, model>>

InitRules ==
    /\ obj \in RuleInputs
    /\ call = NoCall
    /\ req = <<>>
    /\ model = <<>>

NextRules == CallPassword \/ CallUsername \/ CallSlug

SpecRules == InitRules /\ [][NextRules]_vars

(***************************************************************************)
(* Properties of the engine, stated over the call just made.               *)
(***************************************************************************)
\* the field-to-message map of a result (empty for Valid)
ErrMap(r) == IF r.kind = "ValidationErrors" THEN r.Errors ELSE EmptyMap

Restrict(m, S) == [k \in (DOMAIN m) \cap S |-> m[k]]

Range(seq) == {seq[i] : i \in 1..Len(seq)}

\* a field is optional when it declares omitempty; an optional field holding
\* the zero value has its rules skipped
Skipped(fld, o) ==
    /\ \E j \in 1..Len(fld.rules) : fld.rules[j].tag = "omitempty"
    /\ o[fld.name] = <<>>

\* the positions of the declared rules the field's value does not satisfy
FailingIdx(fld, o) ==
    IF Skipped(fld, o) THEN {}
    ELSE {j \in 1..Len(fld.rules) :
             /\ fld.rules[j].tag # "omitempty"
             /\ ~RuleHolds(fld.rules[j].tag, fld.rules[j].param, o[fld.name], o)}

FailingFields(o) == {i \in 1..Len(Shape) : FailingIdx(Shape[i], o) # {}}

Least(S) == CHOOSE x \in S : \A y \in S : x <= y

\* the external names the shape's annotations declare
ExpectedExternal == [Email |-> "email", Username |-> "username", Bio |-> "Bio"]

\* C1 (as claimed): for a non-empty list of names that all exist on the shape,
\* the error map of ValidatePartial is the error map of Validate restricted
\* to the requested names.
C1_PartialSubsetLaw ==
    (/\ call.op = "ValidatePartial"
     /\ call.fields # <<>>
     /\ \A i \in 1..Len(call.fields) : FieldFound(Shape, call.fields[i]))
    => ErrMap(call.result) = Restrict(ErrMap(Validate(Shape, obj)), Range(call.fields))

\* C5: Validate records, for every field that fails rules, exactly the message
\* of its first failing rule in declaration order, and no more entries than
\* there are failing fields.
C5_FirstFailingRuleWins ==
    call.op = "Validate" =>
        /\ \A i \in FailingFields(obj) :
              LET fld == Shape[i]
                  r == fld.rules[Least(FailingIdx(fld, obj))]
                  key == ExpectedExternal[fld.name]
              IN  /\ key \in DOMAIN ErrMap(call.result)
                  /\ ErrMap(call.result)[key] = getErrorMessage(FieldError(key, r))
        /\ Cardinality(DOMAIN ErrMap(call.result)) <= Cardinality(FailingFields(obj))

\* a Validate call on an object with a field that fails two of its rules
C5_Witness ==
    /\ call.op = "Validate"
    /\ \E i \in 1..Len(Shape) : Cardinality(FailingIdx(Shape[i], obj)) >= 2
    /\ DOMAIN ErrMap(call.result) # {}

\* C6: Validate returns Invalid, with a non-empty map, exactly when some field
\* fails some declared rule; otherwise it returns Valid (nil).
C6_InvalidIffSomeRuleFails ==
    call.op = "Validate" =>
        /\ (call.result.kind = "ValidationErrors" /\ DOMAIN call.result.Errors # {})
              <=> (FailingFields(obj) # {})
        /\ (FailingFields(obj) = {}) => call.result = Nil

\* a Validate call that returned Valid on an object with no zero-valued field
C6_Witness ==
    /\ call.op = "Validate"
    /\ call.result = Nil
    /\ \A n \in FieldNames : obj[n] # <<>>

\* C7: when exactly one field violates exactly one rule, the error map has
\* exactly one entry, keyed by that field's external name.
C7_SingleViolationKeyedByExternalName ==
    (/\ call.op = "Validate"
     /\ Cardinality(FailingFields(obj)) = 1
     /\ \A i \in FailingFields(obj) : Cardinality(FailingIdx(Shape[i], obj)) = 1)
    => \E i \in FailingFields(obj) :
          DOMAIN ErrMap(call.result) = {ExpectedExternal[Shape[i].name]}

\* the single violation is on the field whose json annotation carries options
C7_Witness ==
    /\ call.op = "Validate"
    /\ FailingFields(obj) = {2}
    /\ Cardinality(FailingIdx(Shape[2], obj)) = 1
    /\ DOMAIN ErrMap(call.result) = {"username"}

\* C8: every requested name that is not a field of the shape gets the entry
\* "field not found", and every requested field that carries rules is still
\* handed to the rule check, wherever the missing name stands in the list.
C8_MissingFieldReported ==
    (call.op = "ValidatePartial" /\ call.fields # <<>>) =>
        \A i \in 1..Len(call.fields) :
            IF ~FieldFound(Shape, call.fields[i])
            THEN /\ call.result.kind = "ValidationErrors"
                 /\ call.fields[i] \in DOMAIN call.result.Errors
                 /\ call.result.Errors[call.fields[i]] = "field not found"
            ELSE FieldByName(Shape, call.fields[i]).rules # <<>>
                     => call.fields[i] \in Range(call.evaluated)

\* a missing name first, a field of the shape after it
C8_Witness ==
    /\ call.op = "ValidatePartial"
    /\ Len(call.fields) = 2
    /\ call.fields[1] = "Phone"
    /\ call.fields[2] = "Email"
    /\ call.evaluated = <<"Email">>
    /\ call.result.kind = "ValidationErrors"

\* C9 (as claimed): ValidatePartial(obj, "email", "username") evaluates the two
\* fields with those external names: no "field not found", and their rule
\* failures are reported under those names.
C9_PartialByExternalName ==
    (call.op = "ValidatePartial" /\ call.fields = <<"email", "username">>) =>
        /\ \A k \in DOMAIN ErrMap(call.result) : ErrMap(call.result)[k] # "field not found"
        /\ ErrMap(call.result) = Restrict(ErrMap(Validate(Shape, obj)), {"email", "username"})

(***************************************************************************)
(* Properties of the request-scope adapters, stated over each request's    *)
(* trace, Locals and response.                                             *)
(***************************************************************************)
\* the positions of a request's trace holding an event of the kind
At(r, ev) == {p \in 1..Len(req[r].trace) : req[r].trace[p].ev = ev}

\* position p of the request's trace is followed by an error response of the
\* adapter, which ends the trace
RefusedAt(r, p) ==
    LET t == req[r].trace
    IN  /\ Len(t) = p + 1
        /\ t[p + 1].ev = "respond"
        /\ req[r].response.status = t[p + 1].status

\* C2 (as claimed): a rule failure in ValidateBody, ValidateQuery,
\* ValidateHeaders or ValidateCustom is answered with 422 and a parse failure
\* with 400, never the other way round.
C2_StatusByFailureClass ==
    \A r \in Reqs :
        /\ \A p \in At(r, "validate") \cup At(r, "predicate") :
              LET e == req[r].trace[p]
              IN  (~e.ok /\ e.src \in {"body", "query", "headers", "custom"})
                      => (RefusedAt(r, p) /\ req[r].response.status = 422)
        /\ \A p \in At(r, "parse") :
              ~req[r].trace[p].ok => (RefusedAt(r, p) /\ req[r].response.status = 400)

\* C3 (as claimed): the object a request's final handler retrieves under a
\* key holds only the data parsed from that request: the fields its source
\* carried, and the zero value in every other field.
C3_ValidatedObjectPerRequest ==
    \A r \in Reqs :
        \A k \in DOMAIN req[r].seen :
            req[r].seen[k] = [n \in FieldNames |->
                                 IF n \in DOMAIN req[r].parsed[k]
                                 THEN req[r].parsed[k][n] ELSE <<>>]

\* C4: in the four source adapters Next is invoked exactly after a successful
\* parse and a successful validation, with the object stored under the
\* source's key just before; a failed parse or validation is followed by an
\* error response only, with nothing stored under the key.
C4_NextIffParsedAndValid ==
    \A r \in Reqs :
        LET t == req[r].trace
        IN  /\ \A p \in At(r, "next") :
                  t[p].src \in Sources =>
                      /\ p >= 4
                      /\ t[p - 3] = Ev("parse", t[p].src, TRUE, 0)
                      /\ t[p - 2] = Ev("validate", t[p].src, TRUE, 0)
                      /\ t[p - 1] = Ev("store", t[p].src, TRUE, 0)
                      /\ Key(t[p].src) \in DOMAIN req[r].locals
            /\ \A p \in At(r, "store") :
                  /\ p < Len(t)
                  /\ t[p + 1] = Ev("next", t[p].src, TRUE, 0)
            /\ \A p \in At(r, "validate") :
                  IF t[p].ok
                  THEN /\ p + 2 <= Len(t)
                       /\ t[p + 1].ev = "store"
                       /\ t[p + 2].ev = "next"
                  ELSE /\ RefusedAt(r, p)
                       /\ req[r].response.status >= 400
                       /\ Key(t[p].src) \notin DOMAIN req[r].locals
            /\ \A p \in At(r, "parse") :
                  IF t[p].ok
                  THEN req[r].pc = "validate" \/ (p < Len(t) /\ t[p + 1].ev = "validate")
                  ELSE /\ RefusedAt(r, p)
                       /\ req[r].response.status >= 400
                       /\ Key(t[p].src) \notin DOMAIN req[r].locals

\* a chained request whose first adapter passed control on and whose second
\* adapter refused the request after a failed validation
C4_Witness ==
    \E r \in Reqs :
        /\ req[r].route = <<"params", "body">>
        /\ req[r].pc = "done"
        /\ DOMAIN req[r].locals = {"validated_params"}
        /\ \E p \in At(r, "validate") : ~req[r].trace[p].ok
        /\ At(r, "next") # {}

\* C10 (as claimed): every response an adapter sends after a failed validation
\* (or a failed custom predicate) carries the four members error, message,
\* details and status, with details the field-to-message map and status the
\* response's HTTP status.
C10_UniformEnvelope ==
    \A r \in Reqs :
        \A p \in At(r, "validate") \cup At(r, "predicate") :
            ~req[r].trace[p].ok =>
                /\ RefusedAt(r, p)
                /\ DOMAIN req[r].response.body = {"error", "message", "details", "status"}
                /\ req[r].response.body.status = req[r].response.status

\* C11: a getter returns found = TRUE, with the stored pointer, only when an
\* adapter of that same source stored an object of type *T earlier in the
\* request; with no such store, or another type, it returns (nil, FALSE).
C11_RetrievalFailsExplicitly ==
    \A r \in Reqs :
        \A g \in DOMAIN req[r].got :
            LET stored == \E p \in At(r, "store") : req[r].trace[p].src = g[1]
                res == req[r].got[g]
            IN  IF stored /\ g[2] = "UserUpdate"
                THEN res = [ptr |-> g[1], found |-> TRUE]
                ELSE res = [ptr |-> NilPointer, found |-> FALSE]

\* a chained request whose handler finds the params object, finds no query
\* object, and finds no body object of another type
C11_Witness ==
    \E r \in Reqs :
        /\ req[r].route = <<"params", "body">>
        /\ DOMAIN req[r].got # {}
        /\ req[r].got[<<"params", "UserUpdate">>].found
        /\ ~req[r].got[<<"query", "UserUpdate">>].found
        /\ ~req[r].got[<<"body", "IDParam">>].found

\* C12: when the confirmation holds a value that differs from the password,
\* Validate reports the equality failure under confirm_password, and the
\* password entry is there exactly when the password's own rules fail; when
\* the two hold the same value the equality rule adds no entry.
C12_EqualityKeyedToConfirmation ==
    call.op = "Validate" =>
        LET m == ErrMap(call.result)
            pwOwnFailure == ~(hasValue(obj.Password) /\ validatePassword(obj.Password)
                              /\ Len(obj.Password) >= 8)
        IN  /\ hasValue(obj.ConfirmPassword) /\ obj.ConfirmPassword # obj.Password =>
                /\ "confirm_password" \in DOMAIN m
                /\ m["confirm_password"] = "confirm_password is invalid"
                /\ ("password" \in DOMAIN m) = pwOwnFailure
            /\ hasValue(obj.ConfirmPassword) /\ obj.ConfirmPassword = obj.Password =>
                "confirm_password" \notin DOMAIN m

C12_Witness ==
    /\ call.op = "Validate"
    /\ obj.Password = Str.Abc12345
    /\ obj.ConfirmPassword = Str.different
    /\ DOMAIN ErrMap(call.result) = {"confirm_password"}

\* the character classes of the password rule
HasUpper(s) == \E i \in 1..Len(s) : s[i] \in 65..90

HasLower(s) == \E i \in 1..Len(s) : s[i] \in 97..122

HasDigit(s) == \E i \in 1..Len(s) : s[i] \in 48..57

HasSymbol(s) == \E i \in 1..Len(s) : s[i] \in SpecialChars

\* C13: the password rule accepts a string exactly when it has at least 8
\* characters and holds an uppercase letter, a lowercase letter, a digit and
\* a symbol of the fixed set.
C13_PasswordRule ==
    call.op = "password" =>
        (call.result <=> /\ Len(obj) >= 8
                         /\ HasUpper(obj) /\ HasLower(obj)
                         /\ HasDigit(obj) /\ HasSymbol(obj))

\* C14: the username rule accepts a string exactly when it has 3 to 30
\* characters, each an ASCII letter, a digit, an underscore or a hyphen.
C14_UsernameRule ==
    call.op = "username" =>
        (call.result <=>
            /\ Len(obj) >= 3 /\ Len(obj) <= 30
            /\ \A i \in 1..Len(obj) :
                  obj[i] \in (65..90) \cup (97..122) \cup (48..57) \cup {95, 45})

\* a username of exactly 30 characters is accepted
C14_Witness ==
    /\ call.op = "username"
    /\ obj = Pad(30)
    /\ call.result

\* C15: the slug rule accepts a string exactly when it is non-empty, each
\* character is a lowercase ASCII letter, a digit or a hyphen, and neither
\* the first nor the last character is a hyphen.
C15_SlugRule ==
    call.op = "slug" =>
        (call.result <=>
            /\ obj # <<>>
            /\ \A i \in 1..Len(obj) : obj[i] \in (97..122) \cup (48..57) \cup {45}
            /\ obj[1] # 45
            /\ obj[Len(obj)] # 45)

\* "trailing-" has only allowed characters and is refused for its last one
C15_Witness ==
    /\ call.op = "slug"
    /\ obj = Str.trailing
    /\ ~call.result

\* C16: the password rule rejects every string of fewer than 8 characters,
\* whatever its length in bytes.
C16_PasswordLengthInCharacters ==
    call.op = "password" /\ Len(obj) < 8 => ~call.result

\* the external names the registration shape's annotations declare
RegExternal ==
    [Password |-> "password", ConfirmPassword |-> "confirm_password",
     Type |-> "type", Token |-> "token"]

Declares(fld, tag) == \E j \in 1..Len(fld.rules) : fld.rules[j].tag = tag

\* C17 (as claimed): a field that does not declare required and holds the
\* empty value contributes no entry; a field that declares required and holds
\* the empty value has the required message.
C17_OptionalEmptySkipped ==
    call.op = "Validate" =>
        \A i \in 1..Len(RegShape) :
            LET fld == RegShape[i]
                ext == RegExternal[fld.name]
                m == ErrMap(call.result)
            IN  obj[fld.name] = <<>> =>
                    IF Declares(fld, "required")
                    THEN ext \in DOMAIN m /\ m[ext] = ext \o " is required"
                    ELSE ext \notin DOMAIN m

\* C17 (amended): a field whose rules begin with omitempty and which holds the
\* empty value contributes no entry; a field whose rules begin with required
\* and which holds the empty value has the required message; a field that
\* declares neither has its rules applied to the empty value, so a lone min=8
\* reports its failure.
C17_OmitemptyEmptySkipped ==
    call.op = "Validate" =>
        \A i \in 1..Len(RegShape) :
            LET fld == RegShape[i]
                ext == RegExternal[fld.name]
                m == ErrMap(call.result)
            IN  obj[fld.name] = <<>> =>
                    /\ fld.rules[1].tag = "omitempty" => ext \notin DOMAIN m
                    /\ fld.rules[1].tag = "required" =>
                          ext \in DOMAIN m /\ m[ext] = ext \o " is required"
                    /\ ~Declares(fld, "omitempty") /\ ~Declares(fld, "required") =>
                          /\ ext \in DOMAIN m
                          /\ m[ext] = "token must be at least 8 characters"

\* every field is empty: the two required fields and the lone min=8 field
\* report, the omitempty field does not
C17_Witness ==
    /\ call.op = "Validate"
    /\ \A n \in DOMAIN obj : obj[n] = <<>>
    /\ DOMAIN ErrMap(call.result) = {"password", "confirm_password", "token"}

\* C18: a shape with an unregistered rule name is refused when its adapter is
\* built, so the server never listens with such an adapter, and the unknown
\* rule is never first met while a request is validated.
C18_UnknownRuleRefusedAtDefinition ==
    /\ call.op = "request" => call.result.kind # "panic"
    /\ req.phase = "serving" =>
          \A name \in req.adapters : UnknownRules(ShapeOf(name)) = {}

\* C19: after a source failed to parse, the adapter answers 400 and the
\* request ends there: no Validate call follows in that request.
C19_ParseFailureNotValidated ==
    \A r \in Reqs :
        \A p \in At(r, "parse") :
            ~req[r].trace[p].ok =>
                /\ Len(req[r].trace) = p + 1
                /\ req[r].trace[p + 1] =
                      Ev("respond", req[r].trace[p].src, FALSE, StatusBadRequest)
                /\ req[r].response.status = StatusBadRequest
                /\ req[r].pc = "done"
                /\ \A v \in At(r, "validate") : v < p

\* the second adapter of a chain fails to parse after the first one validated
C19_Witness ==
    \E r \in Reqs :
        /\ req[r].route = <<"params", "body">>
        /\ \E p \in At(r, "parse") : req[r].trace[p].src = "body" /\ ~req[r].trace[p].ok
        /\ \E v \in At(r, "validate") : req[r].trace[v].src = "params"

C26_EmptyListIsFullValidation ==
    (call.op = "ValidatePartial" /\ call.fields = <<>>) =>
        /\ call.result = Validate(Shape, obj)
        /\ (FailingFields(obj) # {}) <=> (call.result.kind = "ValidationErrors")
        /\ DOMAIN ErrMap(call.result) =
              {ExpectedExternal[Shape[i].name] : i \in FailingFields(obj)}

\* the empty list on an object two of whose fields fail
C26_Witness ==
    /\ call.op = "ValidatePartial"
    /\ call.fields = <<>>
    /\ Cardinality(DOMAIN ErrMap(call.result)) = 2

\* the entry the drawn error holds for the drawn field, if any
HasEntry ==
    /\ obj.err.kind = "ValidationErrors"
    /\ obj.err # NilMapErrors
    /\ obj.field \in DOMAIN obj.err.Errors

\* C23: HasFieldError is true exactly when the error is a ValidationErrors
\* whose map has the key, and GetFieldError returns that key's message; with
\* no entry, a nil map or another kind of error they return FALSE and "".
C23_QueryHelpers ==
    /\ call.op \in {"HasFieldError", "ve.HasFieldError"} => (call.result <=> HasEntry)
    /\ call.op \in {"GetFieldError", "ve.GetFieldError"} =>
          call.result = IF HasEntry THEN obj.err.Errors[obj.field] ELSE ""

\* the message of a plain error is not handed out as a field's message
C23_Witness ==
    /\ call.op = "GetFieldError"
    /\ obj.err = PlainError("connection refused")
    /\ call.result = ""

\* C24: once a call on a begun transaction is over, exactly one of Commit and
\* Rollback was invoked; Commit only when fn returned nil; after an error of
\* fn the transaction was rolled back and nothing it wrote is committed; after
\* a panic it was rolled back and the panic goes on to the caller.
C24_CommitOnlyOnSuccess ==
    (req.pc = "returned" /\ req.begun) =>
        /\ req.commits + req.rollbacks = 1
        /\ req.commits = 1 => req.fn = "nil"
        /\ req.fn = "error" => req.rollbacks = 1 /\ model = <<>>
        /\ req.fn = "panic" => req.rollbacks = 1 /\ req.ret = TxPanic

\* C25: a call that hands nil to its caller committed its transaction with
\* success.
C25_NilOnlyAfterCommit ==
    (req.pc = "returned" /\ req.ret = Nil) =>
        req.begun /\ req.commits = 1 /\ req.committed

\* C27: the HTTP status of every response a builder sends equals the status
\* member of its body, and it is 422 when WithStatus was never called.
C27_StatusMatchesBody ==
    call.op = "Send" =>
        /\ call.result.body.status = call.result.status
        /\ ~req.statusSet => call.result.status = StatusUnprocessableEntity
        /\ req.statusSet => call.result.status = req.b.Status

\* a builder that was given another status and then details
C27_Witness ==
    /\ call.op = "Send"
    /\ req.statusSet
    /\ call.result.status = StatusNotFound
    /\ "details" \in DOMAIN call.result.body

\* C28: the global handler answers a ValidationErrors with 422 and its field
\* map as details, a framework error of code 422 or 400 with a "Request
\* Error" envelope of that code, and every other error with the generic 500.
C28_GlobalHandlerClassifies ==
    call.op = "GlobalValidationErrorHandler" =>
        LET r == call.result
        IN  IF obj.kind = "ValidationErrors"
            THEN /\ r.status = StatusUnprocessableEntity
                 /\ r.body.status = StatusUnprocessableEntity
                 /\ r.body.error = "Validation failed"
                 /\ IF obj = NilMapErrors \/ obj = ValidationErrors(EmptyMap)
                    THEN "details" \notin DOMAIN r.body
                    ELSE r.body.details = obj.Errors
            ELSE IF obj.kind = "fiber" /\ obj.Code \in {422, 400}
            THEN /\ r.status = obj.Code
                 /\ r.body = [error |-> "Request Error", message |-> obj.text,
                              status |-> obj.Code]
            ELSE /\ r.status = 500
                 /\ r.body = [error |-> "Internal Server Error",
                              message |-> "An unexpected error occurred",
                              status |-> 500]

\* a framework error of code 404 gets the generic 500
C28_Witness ==
    /\ call.op = "GlobalValidationErrorHandler"
    /\ obj = FiberError(StatusNotFound, "Cannot parse")
    /\ call.result.status = StatusInternalServerError

\* C29: the process never exits after it tried the database connection, it
\* serves with no handle when the connection failed, and the readiness
\* endpoint answers 503 "degraded" exactly when the database feature is
\* enabled and no handle is held, 200 "ready" otherwise.
C29_ReadinessReflectsHandle ==
    /\ req.tried => req.phase # "exited"
    /\ req.phase = "serving" =>
          (req.db # NoHandle =>
              model.Database /\ model.DBURL = "postgres://app@db/app" /\ req.tried)
    /\ (req.response.body = [status |-> "ready"]
            \/ req.response.status = StatusServiceUnavailable) =>
          IF model.Database /\ model.DBURL # "" /\ req.db = NoHandle
          THEN /\ req.response.status = StatusServiceUnavailable
               /\ req.response.body.status = "degraded"
          ELSE /\ req.response.status = StatusOK
               /\ req.response.body = [status |-> "ready"]

\* the connection failed at startup and the server answers the readiness
\* probe with 503
C29_Witness ==
    /\ req.phase = "serving"
    /\ req.tried
    /\ req.db = NoHandle
    /\ req.response.status = StatusServiceUnavailable

\* C30: a step in which an adapter stores its object under its key leaves
\* every other key of the request's Locals pointing where it pointed and
\* leaves every adapter's object as it was; and in a chain of adapters for
\* different sources that all succeeded, the final handler retrieves each
\* source's object under that source's key.
C30_StoreLeavesOtherKeys ==
    [][\A r \in Reqs :
          /\ At(r, "store")' # At(r, "store") =>
                /\ \A k \in DOMAIN req[r].locals :
                      k \in DOMAIN req'[r].locals /\ req'[r].locals[k] = req[r].locals[k]
                /\ Cardinality(DOMAIN req'[r].locals) = Cardinality(At(r, "store")')
                /\ model' = model
          /\ (DOMAIN req'[r].got # {} /\ req'[r].route = <<"params", "body">>) =>
                /\ req'[r].got[<<"params", "UserUpdate">>] = [ptr |-> "params", found |-> TRUE]
                /\ req'[r].got[<<"body", "UserUpdate">>] = [ptr |-> "body", found |-> TRUE]
                /\ DOMAIN req'[r].seen = {Key("params"), Key("body")}
    ]_vars

\* the handler of a params-then-body chain has both objects in reach
C30_Witness ==
    \E r \in Reqs :
        /\ req[r].route = <<"params", "body">>
        /\ req[r].pc = "done"
        /\ DOMAIN req[r].seen = {"validated_params", "validated_body"}

====
